---- MODULE Spec2Model ----
(***************************************************************************)
(* Model of two components of python-pptx:                                 *)
(*                                                                         *)
(*   - SmartArt diagram nodes (pptx/shapes/smartart.py, pptx/oxml/         *)
(*     diagram.py, pptx/parts/diagram.py): the authoritative point list    *)
(*     of a diagram data part, the node collection filtered from it, the   *)
(*     Node.text setter and the propagation of the text list into the      *)
(*     drawing parts (caches) related to the slide part.                   *)
(*   - Chart categories (pptx/chart/category.py): depth, levels,           *)
(*     flattened_labels with the parentage algorithm, and update_all.      *)
(*                                                                         *)
(* An XML text run's content is a string; a run whose lxml .text is None   *)
(* is the empty string (the source only ever tests it for truthiness).     *)
(***************************************************************************)
EXTENDS Integers, Sequences, FiniteSets, TLC

VARIABLES
    ptLst,      \* <dgm:ptLst>: the points of the diagram data part, document order
    cxnLst,     \* <dgm:cxnLst>: the connections of the diagram data part
    rels,       \* slide_part.rels.values(): relationships of the owning slide part
    dataPart,   \* SmartArtNode._data_part is not None
    parents,    \* the objects reached from SmartArtNode._parent upward, nearest first
    last,       \* the last Node.text call: i and v of a set, read and v of a get
    cat,        \* xChart.cat: "none", or a <c:cat> holding a "flat" or a "multi"-level reference
    ptCount,    \* xChart.cat_pt_count: <c:ptCount val=...>
    flatPts,    \* the <c:pt> elements of a flat category reference
    lvls,       \* cat.lvls: the <c:lvl> elements, leaf level first, each its <c:pt> list
    chartPart,  \* Categories._chart_part: "none", or a chart part with or without a workbook
    workbook,   \* category labels held by the embedded workbook
    strCache,   \* category labels held by the cached string list of <c:cat>
    res         \* the last Categories call and what it returned or raised

vars == <<ptLst, cxnLst, rels, dataPart, parents, last,
          cat, ptCount, flatPts, lvls, chartPart, workbook, strCache, res>>

diagramVars == <<ptLst, cxnLst, rels, dataPart, parents, last>>
chartVars == <<cat, ptCount, flatPts, lvls, chartPart, workbook, strCache, res>>

(***************************************************************************)
(* Bounds of the model.                                                    *)
(***************************************************************************)
MaxPts == 2        \* points in a point list
MaxRuns == 3       \* <a:t> runs in one text container
MaxCells == 2      \* <a:t> cells in one drawing part
MaxRels == 2       \* relationships of the slide part

(***************************************************************************)
(* pptx/oxml/diagram.py                                                    *)
(***************************************************************************)
NoType == "<unset>"      \* pt.type is None: the attribute is absent

\* A <dgm:pt>: modelId, type, and the <dgm:t> container (hasT) with the text
\* of its <a:t> descendants in document order (runs).
Point(id, ty, hasT, runs) ==
    [modelId |-> id, type |-> ty, hasT |-> hasT, runs |-> runs]

\* A <dgm:cxn>: modelId, type and the modelId of the points it joins.
Connection(id, ty, src, dest) ==
    [modelId |-> id, type |-> ty, srcId |-> src, destId |-> dest]

RECURSIVE Join(_)
Join(s) == IF s = <<>> THEN "" ELSE Head(s) \o Join(Tail(s))

\* Mutant of CT_DiagramPoint.text (getter): only the first run is read.
PtTextFirstRun(pt) ==
    IF ~pt.hasT THEN ""
    ELSE IF pt.runs = <<>> THEN ""
    ELSE pt.runs[1]

\* CT_DiagramPoint.text (getter)
PtText(pt) == IF ~pt.hasT THEN "" ELSE Join(pt.runs)

\* Mutant of CT_DiagramPoint.text (setter): the later runs are not cleared.
PtSetTextFirstRunOnly(pt, value) ==
    IF ~pt.hasT THEN pt
    ELSE IF pt.runs = <<>> THEN pt
    ELSE [pt EXCEPT !.runs[1] = value]

\* Mutant of CT_DiagramPoint.text (setter): a container without a run gets
\* a run created for the value.
PtSetTextCreatingRun(pt, value) ==
    IF ~pt.hasT THEN pt
    ELSE IF pt.runs = <<>> THEN [pt EXCEPT !.runs = <<value>>]
    ELSE [pt EXCEPT !.runs =
              [k \in 1..Len(pt.runs) |-> IF k = 1 THEN value ELSE ""]]

\* Mutant of CT_DiagramPoint.text (setter): the value is appended to the
\* first run.
PtSetTextAppending(pt, value) ==
    IF ~pt.hasT THEN pt
    ELSE IF pt.runs = <<>> THEN pt
    ELSE [pt EXCEPT !.runs =
              [k \in 1..Len(pt.runs) |-> IF k = 1 THEN pt.runs[1] \o value ELSE ""]]

\* CT_DiagramPoint.text (setter)
PtSetText(pt, value) ==
    IF ~pt.hasT THEN pt
    ELSE IF pt.runs = <<>> THEN pt
    ELSE [pt EXCEPT !.runs =
              [k \in 1..Len(pt.runs) |-> IF k = 1 THEN value ELSE ""]]

(***************************************************************************)
(* pptx/shapes/smartart.py                                                 *)
(***************************************************************************)
MetadataTypes == {"pres", "parTrans", "sibTrans"}

\* Mutant of _SmartArtNodes.__iter__: sibling-transition points are yielded.
RECURSIVE IterFromKeepingSibTrans(_, _)
IterFromKeepingSibTrans(pl, k) ==
    IF pl = <<>> THEN <<>>
    ELSE IF Head(pl).type \notin {"pres", "parTrans"}
         THEN <<k>> \o IterFromKeepingSibTrans(Tail(pl), k + 1)
         ELSE IterFromKeepingSibTrans(Tail(pl), k + 1)

\* _SmartArtNodes.__iter__: the positions in pl, in document order, of the
\* points that are yielded as nodes.  k is the position of Head(pl) in ptLst.
RECURSIVE IterFrom(_, _)
IterFrom(pl, k) ==
    IF pl = <<>> THEN <<>>
    ELSE IF Head(pl).type \notin MetadataTypes
         THEN <<k>> \o IterFrom(Tail(pl), k + 1)
         ELSE IterFrom(Tail(pl), k + 1)

NodesIter(pl) == IterFrom(pl, 1)

\* _SmartArtNodes.__len__
NodesLen(pl) == Len(NodesIter(pl))

\* SmartArtNode.text (getter) of the i-th node of the collection
NodeText(pl, i) == PtText(pl[NodesIter(pl)[i]])

\* SmartArt.iter_text
RECURSIVE IterText(_, _)
IterText(pl, idx) ==
    IF idx = <<>> THEN <<>>
    ELSE LET text == PtText(pl[Head(idx)])
         IN  IF text # "" THEN <<text>> \o IterText(pl, Tail(idx))
             ELSE IterText(pl, Tail(idx))

\* SmartArt.text_content
TextContent(pl) == IterText(pl, NodesIter(pl))

(***************************************************************************)
(* pptx/parts/diagram.py                                                   *)
(***************************************************************************)
\* Mutant of DiagramDrawingPart.update_all_text_elements: the cells beyond
\* the text list are cleared.
UpdateAllTextElementsClearing(cells, text_list) ==
    [k \in 1..Len(cells) |->
        IF k <= Len(text_list) THEN text_list[k] ELSE ""]

\* DiagramDrawingPart.update_all_text_elements
UpdateAllTextElements(cells, text_list) ==
    [k \in 1..Len(cells) |->
        IF k <= Len(text_list) THEN text_list[k] ELSE cells[k]]

(***************************************************************************)
(* Relationships of the slide part.  A relationship has a type and a       *)
(* target part; the target's class and its <a:t> cells are kept.           *)
(***************************************************************************)
DIAGRAM_DRAWING == "diagramDrawing"

Rel(rt, cls, cells) == [reltype |-> rt, target |-> cls, cells |-> cells]

IsCacheTarget(rel) ==
    rel.reltype = DIAGRAM_DRAWING /\ rel.target = "DiagramDrawingPart"

\* The walk of SmartArt._sync_drawing_part up the ownership chain: chain is
\* what SmartArt._parent leads to, nearest first.  TRUE when an object with a
\* resolvable part is reached.
RECURSIVE FindsPart(_)
FindsPart(chain) ==
    IF chain = <<>> THEN FALSE
    ELSE IF Head(chain) = "parted" THEN TRUE
    ELSE FindsPart(Tail(chain))

\* Mutant of SmartArt._sync_drawing_part: the relationships are used without
\* an owning part having been found.
SyncDrawingPartWithoutOwner(chain, pl, rs) ==
    LET drawing_rels == {k \in 1..Len(rs) : rs[k].reltype = DIAGRAM_DRAWING}
    IN  IF drawing_rels = {} THEN rs
        ELSE LET texts == TextContent(pl)
             IN  [k \in 1..Len(rs) |->
                    IF k \in drawing_rels /\ rs[k].target = "DiagramDrawingPart"
                    THEN [rs[k] EXCEPT !.cells = UpdateAllTextElements(@, texts)]
                    ELSE rs[k]]

\* SmartArt._sync_drawing_part
SyncDrawingPart(chain, pl, rs) ==
    IF ~FindsPart(chain) THEN rs
    ELSE LET drawing_rels == {k \in 1..Len(rs) : rs[k].reltype = DIAGRAM_DRAWING}
         IN  IF drawing_rels = {} THEN rs
             ELSE LET texts == TextContent(pl)
                  IN  [k \in 1..Len(rs) |->
                         IF k \in drawing_rels /\ rs[k].target = "DiagramDrawingPart"
                         THEN [rs[k] EXCEPT !.cells = UpdateAllTextElements(@, texts)]
                         ELSE rs[k]]

\* The walk of SmartArtNode.text (setter) up its own chain to the SmartArt
\* object: the chain above the SmartArt, or "none" when there is no SmartArt.
RECURSIVE AboveSmartArt(_)
AboveSmartArt(chain) ==
    IF chain = <<>> THEN <<"none">>
    ELSE IF Head(chain) = "SmartArt" THEN Tail(chain)
    ELSE AboveSmartArt(Tail(chain))

\* SmartArtNode.text (setter): the relationships after the call
NodeSync(dp, chain, pl, rs) ==
    IF ~dp THEN rs
    ELSE IF AboveSmartArt(chain) = <<"none">> THEN rs
    ELSE SyncDrawingPart(AboveSmartArt(chain), pl, rs)

(***************************************************************************)
(* Inputs                                                                  *)
(***************************************************************************)
Texts == {"", "a"}

RECURSIVE SeqsUpTo(_, _)
SeqsUpTo(S, n) ==
    IF n = 0 THEN {<<>>}
    ELSE LET shorter == SeqsUpTo(S, n - 1)
         IN  shorter \cup {Append(s, x) : s \in {t \in shorter : Len(t) = n - 1}, x \in S}

Fill(n, x) == [k \in 1..n |-> x]

\* n runs, each with a text of its own.
RunLetter == <<"x", "y", "z", "w", "u", "t">>
RunsOf(n) == [k \in 1..n |-> RunLetter[k]]

\* Point shapes: untyped content points with no container or 0..MaxRuns runs,
\* a typed content point, and one point of each metadata type carrying text.
RichShapes ==
    {[type |-> NoType, hasT |-> FALSE, runs |-> <<>>]}
    \cup {[type |-> NoType, hasT |-> TRUE, runs |-> RunsOf(n)] : n \in 0..MaxRuns}
    \cup {[type |-> "doc", hasT |-> TRUE, runs |-> <<"x">>]}
    \cup {[type |-> ty, hasT |-> TRUE, runs |-> <<"m">>] : ty \in MetadataTypes}

SimpleShapes ==
    {[type |-> NoType, hasT |-> TRUE, runs |-> <<"x">>],
     [type |-> "pres", hasT |-> TRUE, runs |-> <<"m">>]}

\* One connection from each point to the next.
CxnLstOf(pl) ==
    [k \in 1..(Len(pl) - 1) |->
        Connection(Len(pl) + k, "parOf", pl[k].modelId, pl[k + 1].modelId)]

PtLstOf(shapes) ==
    [k \in 1..Len(shapes) |->
        Point(k, shapes[k].type, shapes[k].hasT, shapes[k].runs)]

RelOptions ==
    {Rel(DIAGRAM_DRAWING, "DiagramDrawingPart", Fill(n, "c")) : n \in 0..MaxCells}
    \cup {Rel(DIAGRAM_DRAWING, "Part", <<"c">>),
          Rel("slideLayout", "DiagramDrawingPart", <<"c">>)}

\* How the node was obtained: through graphic_frame.smartart.nodes of a frame on
\* a slide, of a frame without a slide, or constructed on its own.
AttachedHandle == [dp |-> TRUE, chain |-> <<"nodes", "SmartArt", "parted">>]

NodeHandles ==
    {AttachedHandle,
     [dp |-> TRUE, chain |-> <<"nodes", "SmartArt", "proxy", "parted">>],
     [dp |-> TRUE, chain |-> <<"nodes", "SmartArt", "proxy">>],
     [dp |-> TRUE, chain |-> <<"nodes", "SmartArt">>],
     [dp |-> TRUE, chain |-> <<>>],
     [dp |-> FALSE, chain |-> <<>>],
     [dp |-> FALSE, chain |-> <<"nodes", "SmartArt", "parted">>]}

OneDrawing == <<Rel(DIAGRAM_DRAWING, "DiagramDrawingPart", Fill(MaxCells, "c"))>>

DiagramInputs ==
    {[pl |-> PtLstOf(s), rs |-> OneDrawing, h |-> AttachedHandle] :
        s \in SeqsUpTo(RichShapes, MaxPts)}
    \cup {[pl |-> PtLstOf(s), rs |-> r, h |-> AttachedHandle] :
        s \in SeqsUpTo(SimpleShapes, MaxPts), r \in SeqsUpTo(RelOptions, MaxRels)}
    \cup {[pl |-> PtLstOf(s), rs |-> OneDrawing, h |-> h] :
        s \in SeqsUpTo(SimpleShapes, MaxPts), h \in NodeHandles}

NoCall == [i |-> 0, v |-> "", read |-> 0]

NoResult == [op |-> "init", err |-> "none", arg |-> <<>>, value |-> <<>>, cats |-> <<>>]

ChartIdle ==
    /\ cat = "none"
    /\ ptCount = 0
    /\ flatPts = <<>>
    /\ lvls = <<>>
    /\ chartPart = "none"
    /\ workbook = <<>>
    /\ strCache = <<>>
    /\ res = NoResult

InitDiagram ==
    /\ \E d \in DiagramInputs :
          /\ ptLst = d.pl
          /\ cxnLst = CxnLstOf(d.pl)
          /\ rels = d.rs
          /\ dataPart = d.h.dp
          /\ parents = d.h.chain
    /\ last = NoCall
    /\ ChartIdle

(***************************************************************************)
(* Node.text = v on the i-th node of the collection.                       *)
(***************************************************************************)
\* Mutant of the setter: the node position is used as a position in the
\* point list.
SetTextRawIndex(i, v) ==
    /\ i \in 1..NodesLen(ptLst)
    /\ LET raw == i
           pl == [ptLst EXCEPT ![raw] = PtSetText(@, v)]
       IN  /\ ptLst' = pl
           /\ rels' = NodeSync(dataPart, parents, pl, rels)
    /\ last' = [i |-> i, v |-> v, read |-> 0]
    /\ UNCHANGED <<cxnLst, dataPart, parents>>
    /\ UNCHANGED chartVars

SetText(i, v) ==
    /\ i \in 1..NodesLen(ptLst)
    /\ LET raw == NodesIter(ptLst)[i]
           pl == [ptLst EXCEPT ![raw] = PtSetText(@, v)]
       IN  /\ ptLst' = pl
           /\ rels' = NodeSync(dataPart, parents, pl, rels)
    /\ last' = [i |-> i, v |-> v, read |-> 0]
    /\ UNCHANGED <<cxnLst, dataPart, parents>>
    /\ UNCHANGED chartVars

(***************************************************************************)
(* Node.text read on the i-th node of the collection.                      *)
(***************************************************************************)
GetText(i) ==
    /\ i \in 1..NodesLen(ptLst)
    /\ last' = [i |-> 0, v |-> NodeText(ptLst, i), read |-> i]
    /\ UNCHANGED <<ptLst, cxnLst, rels, dataPart, parents>>
    /\ UNCHANGED chartVars

NextDiagram ==
    \/ \E i \in 1..MaxPts, v \in Texts : SetText(i, v)
    \/ \E i \in 1..MaxPts : GetText(i)

SpecDiagram == InitDiagram /\ [][NextDiagram]_vars

(***************************************************************************)
(* pptx/chart/category.py                                                  *)
(***************************************************************************)
MaxIdx == 2        \* greatest idx of a <c:pt>
MaxAnc == 3        \* <c:pt> elements in all ancestor levels together
MaxDepth == 3      \* <c:lvl> elements
MaxLeaf == 2       \* declared leaf count of a collection that is relabelled

\* A <c:pt idx=...><c:v>v</c:v></c:pt>; NonePt stands for None in xChart.cat_pts.
Pt(i, v) == [present |-> TRUE, idx |-> i, v |-> v]
NonePt == [present |-> FALSE, idx |-> 0, v |-> ""]

\* Category.__new__ / Category.__init__ / Category.idx / Category.label
Category(pt, idx) ==
    [idx |-> IF pt.present THEN pt.idx ELSE idx,
     label |-> IF pt.present THEN pt.v ELSE ""]

\* CategoryLevel.__getitem__ / CategoryLevel.__len__: the categories of a level
CategoryLevel(lvl) == [k \in 1..Len(lvl) |-> Category(lvl[k], 0)]

\* xChart.cat_pts: one entry per declared position, None where no <c:pt> has
\* that idx.  The <c:pt> are those of the leaf level when there are levels.
StoredPts == IF lvls # <<>> THEN lvls[1] ELSE flatPts

CatPts ==
    [k \in 1..ptCount |->
        IF \E j \in 1..Len(StoredPts) : StoredPts[j].idx = k - 1
        THEN StoredPts[CHOOSE j \in 1..Len(StoredPts) :
                 /\ StoredPts[j].idx = k - 1
                 /\ \A m \in (j + 1)..Len(StoredPts) : StoredPts[m].idx # k - 1]
        ELSE NonePt]

\* Categories.__iter__
CategoriesIter == [k \in 1..Len(CatPts) |-> Category(CatPts[k], k - 1)]

\* Categories.__len__
CategoriesLen == ptCount

\* Mutant of Categories.depth: the levels are counted without asking for a
\* multi-level reference.
DepthCountingLevels ==
    IF cat = "none" THEN 0
    ELSE Len(lvls)

\* Mutant of Categories.depth: the levels above the leaf level are counted.
DepthAboveLeaf ==
    IF cat = "none" THEN 0
    ELSE IF cat # "multi" THEN 1
    ELSE IF lvls = <<>> THEN 0
    ELSE Len(lvls) - 1

\* Categories.depth
Depth ==
    IF cat = "none" THEN 0
    ELSE IF cat # "multi" THEN 1
    ELSE Len(lvls)

\* Categories.levels
Levels ==
    IF cat = "none" THEN <<>>
    ELSE [k \in 1..Len(lvls) |-> CategoryLevel(lvls[k])]

\* The scan of Categories._parentage over parent_level from position k on:
\* parent is the candidate so far.
RECURSIVE ScanParent(_, _, _, _)
ScanParent(parent_level, leaf_node, k, parent) ==
    IF k > Len(parent_level) THEN parent
    ELSE IF parent_level[k].idx > leaf_node.idx THEN parent
    ELSE ScanParent(parent_level, leaf_node, k + 1, parent_level[k])

\* Mutant of Categories._parentage: the default parent is the last entry of
\* the level, not the first.
RECURSIVE ParentageDefaultLast(_, _)
ParentageDefaultLast(categories, levels) ==
    IF levels = <<>> THEN categories
    ELSE IF Head(levels) = <<>> THEN categories
    ELSE LET parent_level == Head(levels)
             leaf_node == categories[1]
             parent == ScanParent(parent_level, leaf_node, 1,
                                  parent_level[Len(parent_level)])
         IN  ParentageDefaultLast(Append(categories, parent), Tail(levels))

\* Mutant of Categories._parentage: the idx of the most recently appended
\* ancestor, not of the leaf, decides the parent.
RECURSIVE ParentageByLastAncestor(_, _)
ParentageByLastAncestor(categories, levels) ==
    IF levels = <<>> THEN categories
    ELSE IF Head(levels) = <<>> THEN categories
    ELSE LET parent_level == Head(levels)
             leaf_node == categories[Len(categories)]
             parent == ScanParent(parent_level, leaf_node, 1, parent_level[1])
         IN  ParentageByLastAncestor(Append(categories, parent), Tail(levels))

\* Categories._parentage
RECURSIVE Parentage(_, _)
Parentage(categories, levels) ==
    IF levels = <<>> THEN categories
    ELSE IF Head(levels) = <<>> THEN categories
    ELSE LET parent_level == Head(levels)
             remaining_levels == Tail(levels)
             leaf_node == categories[1]
             parent == ScanParent(parent_level, leaf_node, 1, parent_level[1])
         IN  Parentage(Append(categories, parent), remaining_levels)

\* Categories._iter_flattened_categories
IterFlattenedCategories ==
    LET levels == Levels
    IN  IF levels = <<>> THEN <<>>
        ELSE [k \in 1..Len(levels[1]) |-> Parentage(<<levels[1][k]>>, Tail(levels))]

Reversed(s) == [k \in 1..Len(s) |-> s[Len(s) + 1 - k]]

LabelsOf(s) == [k \in 1..Len(s) |-> s[k].label]

\* Mutant of Categories.flattened_labels: the chains are not reversed.
FlattenedLabelsChildFirst ==
    IF cat = "none" THEN <<>>
    ELSE IF cat # "multi"
         THEN [k \in 1..Len(CategoriesIter) |-> <<CategoriesIter[k].label>>]
         ELSE [k \in 1..Len(IterFlattenedCategories) |->
                  LabelsOf(IterFlattenedCategories[k])]

\* Mutant of Categories.flattened_labels: a flat collection is read from
\* its stored <c:pt> only.
FlattenedLabelsStoredOnly ==
    IF cat = "none" THEN <<>>
    ELSE IF cat # "multi"
         THEN [k \in 1..Len(flatPts) |-> <<flatPts[k].v>>]
         ELSE [k \in 1..Len(IterFlattenedCategories) |->
                  LabelsOf(Reversed(IterFlattenedCategories[k]))]

\* Categories.flattened_labels
FlattenedLabels ==
    IF cat = "none" THEN <<>>
    ELSE IF cat # "multi"
         THEN [k \in 1..Len(CategoriesIter) |-> <<CategoriesIter[k].label>>]
         ELSE [k \in 1..Len(IterFlattenedCategories) |->
                  LabelsOf(Reversed(IterFlattenedCategories[k]))]

\* chart_workbook.update_categories: raises when the chart part has no
\* embedded workbook, otherwise the workbook holds the labels given.
WorkbookUpdateRaises == chartPart = "no_workbook"

WorkbookUpdateCategories(new_categories) == new_categories

\* cat.update_str_cache: the cached string list holds the labels given.
UpdateStrCache(new_categories) == new_categories

\* Mutant of Categories.update_all: the chart part is validated before the
\* length.
UpdateAllErrorPartFirst(new_categories) ==
    IF chartPart = "none" THEN "not_available"
    ELSE IF Len(new_categories) # CategoriesLen THEN "length_mismatch"
    ELSE IF WorkbookUpdateRaises THEN "workbook_error"
    ELSE "none"

\* Categories.update_all: the error it raises, "none" when it returns
UpdateAllError(new_categories) ==
    IF Len(new_categories) # CategoriesLen THEN "length_mismatch"
    ELSE IF chartPart = "none" THEN "not_available"
    ELSE IF WorkbookUpdateRaises THEN "workbook_error"
    ELSE "none"

\* Categories.update_all: the labels of the workbook after the call
UpdateAllWorkbook(new_categories) ==
    IF Len(new_categories) # CategoriesLen THEN workbook
    ELSE IF chartPart = "none" THEN workbook
    ELSE IF WorkbookUpdateRaises THEN workbook
    ELSE WorkbookUpdateCategories(new_categories)

\* Mutant of Categories.update_all: the cached string list is updated before
\* the workbook.
UpdateAllStrCacheFirst(new_categories) ==
    IF Len(new_categories) # CategoriesLen THEN strCache
    ELSE IF chartPart = "none" THEN strCache
    ELSE IF cat # "none" THEN UpdateStrCache(new_categories)
    ELSE strCache

\* Categories.update_all: the cached string list after the call
UpdateAllStrCache(new_categories) ==
    IF Len(new_categories) # CategoriesLen THEN strCache
    ELSE IF chartPart = "none" THEN strCache
    ELSE IF WorkbookUpdateRaises THEN strCache
    ELSE IF cat # "none" THEN UpdateStrCache(new_categories)
    ELSE strCache

(***************************************************************************)
(* Category inputs                                                         *)
(***************************************************************************)
LevelName == <<"L", "A", "B", "C", "D", "E">>
Digit == <<"1", "2", "3", "4", "5", "6", "7">>

\* A level whose <c:pt> have the idx values of idxs, in that order; every
\* <c:pt> of a level has its own label.
LevelOf(lv, idxs) == [k \in 1..Len(idxs) |-> Pt(idxs[k], LevelName[lv] \o Digit[k])]

\* The sequences of n levels, numbered from lv, holding at most budget <c:pt>.
RECURSIVE AncLevels(_, _, _)
AncLevels(lv, n, budget) ==
    IF n = 0 THEN {<<>>}
    ELSE UNION {{<<LevelOf(lv, idxs)>> \o rest :
                    rest \in AncLevels(lv + 1, n - 1, budget - Len(idxs))} :
                idxs \in SeqsUpTo(0..MaxIdx, budget)}

LeafIdxs == {<<>>, [k \in 1..(MaxIdx + 1) |-> k - 1]}

HierInputs ==
    {<<>>} \cup
    {<<LevelOf(1, leaf)>> \o anc :
        leaf \in LeafIdxs,
        anc \in UNION {AncLevels(2, n, MaxAnc) : n \in 0..(MaxDepth - 1)}}

\* The <c:pt> of the positions in present, in position order.
RECURSIVE LeafPts(_, _)
LeafPts(present, k) ==
    IF k > MaxLeaf + 1 THEN <<>>
    ELSE IF (k - 1) \in present
         THEN <<Pt(k - 1, "L" \o Digit[k])>> \o LeafPts(present, k + 1)
         ELSE LeafPts(present, k + 1)

InitialLabels(n, present) ==
    [k \in 1..n |-> IF (k - 1) \in present THEN "L" \o Digit[k] ELSE ""]

NewLabels ==
    {[k \in 1..n |-> p \o Digit[k]] : n \in 0..(MaxLeaf + 1), p \in {"p", "q"}}

InitHierarchy ==
    /\ cat = "multi"
    /\ lvls \in HierInputs
    /\ flatPts = <<>>
    /\ ptCount = (IF lvls = <<>> THEN 0 ELSE Len(lvls[1]))
    /\ chartPart = "none"
    /\ workbook = InitialLabels(ptCount, 0..MaxIdx)
    /\ strCache = workbook

InitRelabel ==
    /\ cat \in {"none", "flat", "multi"}
    /\ ptCount \in 0..MaxLeaf
    /\ cat = "none" => ptCount = 0
    /\ \E present \in SUBSET (0..(ptCount - 1)), withLevels \in BOOLEAN :
          /\ flatPts = (IF cat = "flat" THEN LeafPts(present, 1) ELSE <<>>)
          /\ lvls = (IF cat = "multi" /\ withLevels
                     THEN <<LeafPts(present, 1), LevelOf(2, <<0>>)>>
                     ELSE <<>>)
          /\ workbook = InitialLabels(ptCount, present)
    /\ strCache = workbook
    /\ chartPart \in {"none", "no_workbook", "ok"}

DiagramIdle ==
    /\ ptLst = <<>>
    /\ cxnLst = <<>>
    /\ rels = <<>>
    /\ dataPart = FALSE
    /\ parents = <<>>
    /\ last = NoCall

InitChart ==
    /\ InitHierarchy \/ InitRelabel
    /\ res = NoResult
    /\ DiagramIdle

Result(op, err, arg, value, cats) ==
    [op |-> op, err |-> err, arg |-> arg, value |-> value, cats |-> cats]

DepthCall ==
    /\ res' = Result("depth", "none", <<>>, Depth, <<>>)
    /\ UNCHANGED <<cat, ptCount, flatPts, lvls, chartPart, workbook, strCache>>
    /\ UNCHANGED diagramVars

LevelsCall ==
    /\ res' = Result("levels", "none", <<>>, Levels, <<>>)
    /\ UNCHANGED <<cat, ptCount, flatPts, lvls, chartPart, workbook, strCache>>
    /\ UNCHANGED diagramVars

FlattenedLabelsCall ==
    /\ res' = Result("flattened_labels", "none", <<>>, FlattenedLabels,
                     IF cat = "multi" THEN IterFlattenedCategories ELSE <<>>)
    /\ UNCHANGED <<cat, ptCount, flatPts, lvls, chartPart, workbook, strCache>>
    /\ UNCHANGED diagramVars

UpdateAllCall(new_categories) ==
    /\ res' = Result("update_all", UpdateAllError(new_categories), new_categories,
                     <<>>, <<>>)
    /\ workbook' = UpdateAllWorkbook(new_categories)
    /\ strCache' = UpdateAllStrCache(new_categories)
    /\ UNCHANGED <<cat, ptCount, flatPts, lvls, chartPart>>
    /\ UNCHANGED diagramVars

NextChart ==
    \/ DepthCall
    \/ LevelsCall
    \/ FlattenedLabelsCall
    \/ \E new_categories \in NewLabels : UpdateAllCall(new_categories)

SpecChart == InitChart /\ [][NextChart]_vars

(***************************************************************************)
(* Properties of the diagram node collection                               *)
(***************************************************************************)
\* The node reached a cache: it carries a data part, a SmartArt is on its
\* parent chain and the chain above the SmartArt resolves an owning part.
Attached ==
    /\ dataPart
    /\ AboveSmartArt(parents) # <<"none">>
    /\ FindsPart(AboveSmartArt(parents))

Min(a, b) == IF a <= b THEN a ELSE b

\* C1: after Node.text set on a node of an attached collection, cell i of
\* every cache target holds the current text of the i-th node of the
\* collection, for every i within both the node count and the cell count;
\* nodes whose text is empty keep their position.
C1_CacheCellsFollowNodes ==
    (last.i # 0 /\ Attached) =>
        \A r \in 1..Len(rels) :
            IsCacheTarget(rels[r]) =>
                \A i \in 1..Min(NodesLen(ptLst), Len(rels[r].cells)) :
                    rels[r].cells[i] = NodeText(ptLst, i)

\* The point behind the node that the last Node.text set addressed.
LastPoint == ptLst[NodesIter(ptLst)[last.i]]

\* C4: after Node.text set(v) on a node whose container holds one or more
\* runs, the first run holds v, every later run is empty, and Node.text get
\* returns v.
C4_SetCollapsesRuns ==
    (last.i # 0 /\ LastPoint.hasT /\ Len(LastPoint.runs) >= 1) =>
        /\ LastPoint.runs[1] = last.v
        /\ \A k \in 2..Len(LastPoint.runs) : LastPoint.runs[k] = ""
        /\ NodeText(ptLst, last.i) = last.v

\* A non-empty text was set on a node of three runs.
C4_Witness ==
    /\ last.i # 0
    /\ LastPoint.hasT
    /\ Len(LastPoint.runs) = 3
    /\ last.v # ""
    /\ LastPoint.runs = <<last.v, "", "">>

\* C5: the collection yields, in document order, exactly the points whose
\* type is none of "pres", "parTrans", "sibTrans", and its count is the
\* number of those points, not the number of points.
C5_NodesAreNonMetadataPoints ==
    LET kept == {k \in 1..Len(ptLst) :
                    /\ ptLst[k].type # "pres"
                    /\ ptLst[k].type # "parTrans"
                    /\ ptLst[k].type # "sibTrans"}
        it == NodesIter(ptLst)
    IN  /\ {it[j] : j \in 1..Len(it)} = kept
        /\ \A j \in 1..(Len(it) - 1) : it[j] < it[j + 1]
        /\ NodesLen(ptLst) = Cardinality(kept)

\* Node.text was set on the first node of a collection whose point list
\* starts with a sibling-transition point.
C5_Witness ==
    /\ last.i = 1
    /\ Len(ptLst) = 2
    /\ ptLst[1].type = "sibTrans"
    /\ NodesIter(ptLst) = <<2>>
    /\ NodesLen(ptLst) = 1

\* C6: a cache overwrite keeps the number of cells of every cache target;
\* the cells at positions beyond the propagated text sequence keep their
\* content, and the texts beyond the cell count are dropped.
C6_OverwriteKeepsCellCount ==
    [][/\ Len(rels') = Len(rels)
       /\ \A r \in 1..Len(rels) :
             /\ Len(rels'[r].cells) = Len(rels[r].cells)
             /\ \A j \in 1..Len(rels[r].cells) :
                   j > Len(TextContent(ptLst')) =>
                       rels'[r].cells[j] = rels[r].cells[j]]_vars

\* The texts of two nodes were propagated to a cache target without cells
\* and to one of which a cell beyond the texts still holds its old content.
C6_Witness ==
    /\ last.i # 0
    /\ Attached
    /\ Len(TextContent(ptLst)) = 1
    /\ \E r \in 1..Len(rels) :
          IsCacheTarget(rels[r]) /\ Len(rels[r].cells) = 0
    /\ \E r \in 1..Len(rels) :
          /\ IsCacheTarget(rels[r])
          /\ Len(rels[r].cells) = 2
          /\ rels[r].cells = <<TextContent(ptLst)[1], "c">>

HasCacheTarget == \E r \in 1..Len(rels) : IsCacheTarget(rels[r])

\* C7 as stated: Node.text set completes in every configuration, the node
\* then holds the new value, and when the collection is detached or no cache
\* target is found, no relationship target is modified.
C7_Original ==
    [][last'.i # 0 =>
          /\ NodeText(ptLst', last'.i) = last'.v
          /\ (~Attached \/ ~HasCacheTarget) => rels' = rels]_vars

\* C7 amended: Node.text set completes in every configuration; the node then
\* holds the new value when its text container holds at least one run; and
\* when the collection is detached or no cache target is found, no
\* relationship target is modified.
C7_SetNeverBlockedBySync ==
    [][last'.i # 0 =>
          /\ (ptLst[NodesIter(ptLst)[last'.i]].hasT
                /\ ptLst[NodesIter(ptLst)[last'.i]].runs # <<>>) =>
                   NodeText(ptLst', last'.i) = last'.v
          /\ (~Attached \/ ~HasCacheTarget) => rels' = rels]_vars

\* Node.text was set on a node of a detached collection: the node holds the
\* new value and the drawing part still holds its old cells.
C7_Witness ==
    /\ last.i # 0
    /\ ~Attached
    /\ dataPart
    /\ AboveSmartArt(parents) # <<"none">>
    /\ last.v = "a"
    /\ NodeText(ptLst, last.i) = "a"
    /\ HasCacheTarget
    /\ \A r \in 1..Len(rels) :
          IsCacheTarget(rels[r]) => rels[r].cells = Fill(Len(rels[r].cells), "c")

(***************************************************************************)
(* Properties of the category hierarchy                                    *)
(***************************************************************************)
Sorted(lvl) == \A j \in 1..(Len(lvl) - 1) : lvl[j].idx <= lvl[j + 1].idx

IdxsUpTo(lvl, i) == {lvl[j].idx : j \in {m \in 1..Len(lvl) : lvl[m].idx <= i}}

MaxOf(S) == CHOOSE x \in S : \A y \in S : y <= x

\* C2: when every level is ordered by non-decreasing idx, the parent that
\* flattening chooses for a leaf at each ancestor level is an entry of that
\* level whose idx is the greatest one not exceeding the idx of the leaf
\* itself, whenever the level has an entry with idx not exceeding it.
C2_ParentIsPredecessorOfLeaf ==
    (res.op = "flattened_labels" /\ cat = "multi"
        /\ \A n \in 1..Len(lvls) : Sorted(lvls[n])) =>
        \A c \in 1..Len(res.cats) :
            LET chain == res.cats[c]
            IN  \A n \in 2..Len(chain) :
                    IdxsUpTo(lvls[n], chain[1].idx) # {} =>
                        /\ \E j \in 1..Len(lvls[n]) :
                              chain[n] = Category(lvls[n][j], 0)
                        /\ chain[n].idx = MaxOf(IdxsUpTo(lvls[n], chain[1].idx))

\* A leaf whose parent at the second ancestor level differs from the one the
\* idx of its first ancestor would select.
C2_Witness ==
    /\ res.op = "flattened_labels"
    /\ cat = "multi"
    /\ \A n \in 1..Len(lvls) : Sorted(lvls[n])
    /\ \E c \in 1..Len(res.cats) :
          /\ Len(res.cats[c]) = 3
          /\ res.cats[c][2].idx < res.cats[c][1].idx
          /\ res.cats[c][3].idx > res.cats[c][2].idx

\* C3 as stated: update_all fails with a length-mismatch error whenever the
\* length of the new labels differs from the leaf count, and with a
\* not-available error whenever the chart part is not available; in both
\* cases the workbook and the cached string list are left as they were.
C3_Original ==
    [][res'.op = "update_all" =>
          /\ Len(res'.arg) # CategoriesLen => res'.err = "length_mismatch"
          /\ chartPart = "none" => res'.err = "not_available"
          /\ (Len(res'.arg) # CategoriesLen \/ chartPart = "none") =>
                (workbook' = workbook /\ strCache' = strCache)]_vars

\* C3 amended: the length is validated first.  update_all fails with a
\* length-mismatch error whenever the length differs, and with a
\* not-available error when the length matches and the chart part is not
\* available; in both cases the workbook and the cached string list are
\* left as they were.
C3_ValidationBeforeMutation ==
    [][res'.op = "update_all" =>
          /\ Len(res'.arg) # CategoriesLen => res'.err = "length_mismatch"
          /\ (Len(res'.arg) = CategoriesLen /\ chartPart = "none") =>
                res'.err = "not_available"
          /\ (Len(res'.arg) # CategoriesLen \/ chartPart = "none") =>
                (workbook' = workbook /\ strCache' = strCache)]_vars

\* update_all was refused for the length alone: the chart part and its
\* workbook were there to be written, and hold other labels than the new ones.
C3_Witness ==
    /\ res.op = "update_all"
    /\ res.err = "length_mismatch"
    /\ res.arg # <<>>
    /\ chartPart = "ok"
    /\ cat # "none"
    /\ workbook # res.arg
    /\ strCache # res.arg

\* C8: flattening yields one tuple per leaf entry, root first and the leaf's
\* own label last, of length depth; where a higher level is present but
\* empty, the tuple holds only the entries of the levels below that level.
FirstEmptyLevel ==
    IF \E n \in 2..Len(lvls) : lvls[n] = <<>>
    THEN CHOOSE n \in 2..Len(lvls) :
            /\ lvls[n] = <<>>
            /\ \A m \in 2..(n - 1) : lvls[m] # <<>>
    ELSE Len(lvls) + 1

C8_OneChainPerLeaf ==
    (res.op = "flattened_labels" /\ cat # "none") =>
        IF cat = "multi"
        THEN /\ Len(res.value) = (IF lvls = <<>> THEN 0 ELSE Len(lvls[1]))
             /\ \A k \in 1..Len(res.value) :
                   LET t == res.value[k]
                   IN  /\ Len(t) = FirstEmptyLevel - 1
                       /\ FirstEmptyLevel = Len(lvls) + 1 => Len(t) = Depth
                       /\ t[Len(t)] = lvls[1][k].v
                       /\ \A j \in 1..Len(t) :
                             \E m \in 1..Len(lvls[Len(t) + 1 - j]) :
                                t[j] = lvls[Len(t) + 1 - j][m].v
        ELSE \A k \in 1..Len(res.value) : Len(res.value[k]) = 1 /\ Depth = 1

\* A hierarchy of three levels whose middle level is empty was flattened: the
\* tuples hold the leaf alone.
C8_Witness ==
    /\ res.op = "flattened_labels"
    /\ cat = "multi"
    /\ Len(lvls) = 3
    /\ lvls[2] = <<>>
    /\ lvls[3] # <<>>
    /\ Len(res.value) > 1
    /\ \A k \in 1..Len(res.value) : Len(res.value[k]) = 1

\* C9: when the idx of a leaf precedes the idx of every entry of a non-empty
\* ancestor level, the parent chosen at that level is its first entry.
C9_FallbackToFirstEntry ==
    (res.op = "flattened_labels" /\ cat = "multi") =>
        \A c \in 1..Len(res.cats) :
            LET chain == res.cats[c]
            IN  \A n \in 2..Len(chain) :
                    (\A j \in 1..Len(lvls[n]) : lvls[n][j].idx > chain[1].idx) =>
                        chain[n] = Category(lvls[n][1], 0)

\* A leaf precedes both entries of its parent level and got the first one.
C9_Witness ==
    /\ res.op = "flattened_labels"
    /\ cat = "multi"
    /\ Len(lvls) >= 2
    /\ Len(lvls[2]) = 2
    /\ \E c \in 1..Len(res.cats) :
          /\ \A j \in 1..2 : lvls[2][j].idx > res.cats[c][1].idx
          /\ res.cats[c][2] = Category(lvls[2][1], 0)
          /\ res.cats[c][2].idx > res.cats[c][1].idx

\* C10 as stated: depth is 0 exactly when there is no category data, 1
\* exactly when the categories are flat (no multi-level reference), and the
\* number of levels otherwise.
C10_Original ==
    res.op = "depth" =>
        /\ res.value = 0 <=> cat = "none"
        /\ res.value = 1 <=> cat = "flat"
        /\ cat = "multi" => res.value = Len(Levels)

\* C10 amended: depth is 0 when there is no category data, 1 when the
\* categories are flat, and the number of levels when there is a multi-level
\* reference, which may itself be 0 or 1.
C10_DepthByReference ==
    res.op = "depth" =>
        /\ cat = "none" => res.value = 0
        /\ cat = "flat" => res.value = 1
        /\ cat = "multi" => res.value = Len(lvls) /\ res.value = Len(Levels)

\* depth was asked of a multi-level reference holding a single level.
C10_Witness ==
    /\ res.op = "depth"
    /\ cat = "multi"
    /\ Len(lvls) = 1
    /\ res.value = 1

\* C11: in a multi-level collection the leaf level, levels()[0], has exactly
\* as many entries as the collection declares leaf positions, a declared
\* position without a stored <c:pt> included, so that flattened_labels gives
\* one tuple per declared leaf position.
C11_LeafLevelHasDeclaredCount ==
    (cat = "multi" /\ lvls # <<>>) =>
        /\ (res.op = "levels") => (Len(res.value[1]) = CategoriesLen)
        /\ (res.op = "flattened_labels") => (Len(res.value) = CategoriesLen)

\* C12: for a flat collection flattened_labels returns one singleton tuple per
\* declared leaf position, in position order, holding the label of the <c:pt>
\* stored for that position; a position without a stored <c:pt> gives the
\* tuple of the empty label, and its category is a placeholder whose label is
\* empty and whose idx is the position.
C12_FlatOneTuplePerPosition ==
    (res.op = "flattened_labels" /\ cat = "flat") =>
        /\ Len(res.value) = ptCount
        /\ Len(CategoriesIter) = ptCount
        /\ \A k \in 1..ptCount :
              IF \E j \in 1..Len(flatPts) : flatPts[j].idx = k - 1
              THEN \E j \in 1..Len(flatPts) :
                      /\ flatPts[j].idx = k - 1
                      /\ res.value[k] = <<flatPts[j].v>>
              ELSE /\ res.value[k] = <<"">>
                   /\ CategoriesIter[k].label = ""
                   /\ CategoriesIter[k].idx = k - 1

C12_Witness ==
    /\ res.op = "flattened_labels"
    /\ cat = "flat"
    /\ ptCount = 2
    /\ Len(flatPts) = 1
    /\ flatPts[1].idx = 1
    /\ res.value = <<<<"">>, <<flatPts[1].v>>>>

\* C13: when depth is 0, the multi-level reference without a level element
\* included, flattened_labels returns the empty tuple and levels the empty
\* list.
C13_DepthZeroIsEmpty ==
    Depth = 0 =>
        /\ res.op = "flattened_labels" => res.value = <<>>
        /\ res.op = "levels" => res.value = <<>>

C13_Witness ==
    /\ res.op = "flattened_labels"
    /\ cat = "multi"
    /\ lvls = <<>>
    /\ ptCount > 0
    /\ Depth = 0
    /\ res.value = <<>>

\* C14: update_all called with as many labels as there are categories on a
\* chart that has a chart part updates the workbook and then the cached
\* string list: when it returns, both hold the new labels; when the workbook
\* update raises, the error reaches the caller and the cached string list is
\* as before, so that no call returns after only one of the two updates.
C14_WorkbookThenStrCache ==
    [][(res'.op = "update_all" /\ Len(res'.arg) = CategoriesLen
            /\ chartPart # "none") =>
          /\ ~WorkbookUpdateRaises => res'.err = "none"
          /\ res'.err = "none" =>
                /\ workbook' = res'.arg
                /\ strCache' = res'.arg
          /\ WorkbookUpdateRaises =>
                /\ res'.err = "workbook_error"
                /\ strCache' = strCache]_vars

C14_Witness ==
    /\ res.op = "update_all"
    /\ res.err = "none"
    /\ cat # "none"
    /\ Len(res.arg) >= 2
    /\ workbook = res.arg
    /\ strCache = res.arg
    /\ strCache[1] # InitialLabels(ptCount, 0..MaxIdx)[1]

(***************************************************************************)
(* Further properties of the diagram node collection                       *)
(***************************************************************************)
\* The point behind the node that a step's Node.text set addresses.
SetPoint(pl, call) == pl[NodesIter(pl)[call.i]]

\* C15: Node.text set on a node whose point has no text container, or whose
\* container holds no run, leaves the point list as it is: no container and
\* no run is created, the call completes, and the text of the node read
\* afterwards is still the empty string.
C15_SetWithoutRunIsNoOp ==
    [][(last'.i # 0
           /\ (~SetPoint(ptLst, last').hasT \/ SetPoint(ptLst, last').runs = <<>>)) =>
          /\ ptLst' = ptLst
          /\ cxnLst' = cxnLst
          /\ NodeText(ptLst', last'.i) = ""]_vars

\* Node.text = "a" was set on a node whose container holds no run.
C15_Witness ==
    /\ last.i # 0
    /\ last.v = "a"
    /\ LastPoint.hasT
    /\ LastPoint.runs = <<>>
    /\ NodeText(ptLst, last.i) = ""

\* The texts of the first n runs, put together from the left.
RECURSIVE ConcatUpTo(_, _)
ConcatUpTo(runs, n) ==
    IF n = 0 THEN "" ELSE ConcatUpTo(runs, n - 1) \o runs[n]

\* C16: Node.text read returns the texts of all runs of the node's text
\* container put together in document order, the empty string when the point
\* has no container or the container no run, and changes nothing.
C16_GetConcatenatesRuns ==
    [][last'.read # 0 =>
          LET pt == ptLst[NodesIter(ptLst)[last'.read]]
          IN  /\ pt.hasT => last'.v = ConcatUpTo(pt.runs, Len(pt.runs))
              /\ (~pt.hasT \/ pt.runs = <<>>) => last'.v = ""
              /\ ptLst' = ptLst
              /\ cxnLst' = cxnLst
              /\ rels' = rels]_vars

\* A node whose container holds three runs was read.
C16_Witness ==
    /\ last.read # 0
    /\ ptLst[NodesIter(ptLst)[last.read]].runs = <<"x", "y", "z">>
    /\ last.v = "xyz"

\* C17: Node.text set on a node whose point has no text container writes
\* nothing and leaves every cell of every cache target as it was.
C17_NoWriteNoSync ==
    [][(last'.i # 0 /\ ~SetPoint(ptLst, last').hasT) => rels' = rels]_vars

\* The drawing part of the diagram whose nodes are set is the first cache
\* target among the relationships of the slide part (0 when there is none);
\* each further cache target is the drawing part of another diagram of the
\* same slide.
OwnDrawing(rs) ==
    IF \E r \in 1..Len(rs) : IsCacheTarget(rs[r])
    THEN CHOOSE r \in 1..Len(rs) :
            /\ IsCacheTarget(rs[r])
            /\ \A q \in 1..(r - 1) : ~IsCacheTarget(rs[q])
    ELSE 0

\* C18: with two diagrams on one slide, each with a drawing part of its own,
\* Node.text set on a node of one diagram leaves every cell of the drawing
\* part of the other diagram as it was.
C18_OtherDiagramUntouched ==
    [][last'.i # 0 =>
          \A r \in 1..Len(rels) :
              (IsCacheTarget(rels[r]) /\ r # OwnDrawing(rels)) =>
                  rels'[r].cells = rels[r].cells]_vars

\* C19: Node.text set on a node changes nothing but the runs of that node's
\* own point: the text of every other node, the type and the modelId of every
\* point, the order and the number of the points, the connection list and the
\* nodes of the collection are as before.
C19_SetTouchesOnlyItsPoint ==
    [][last'.i # 0 =>
          /\ Len(ptLst') = Len(ptLst)
          /\ \A k \in 1..Len(ptLst) :
                /\ ptLst'[k].modelId = ptLst[k].modelId
                /\ ptLst'[k].type = ptLst[k].type
                /\ ptLst'[k].hasT = ptLst[k].hasT
                /\ k # NodesIter(ptLst)[last'.i] => ptLst'[k] = ptLst[k]
          /\ \A j \in 1..NodesLen(ptLst) :
                j # last'.i => NodeText(ptLst', j) = NodeText(ptLst, j)
          /\ cxnLst' = cxnLst
          /\ NodesIter(ptLst') = NodesIter(ptLst)
          /\ NodesLen(ptLst') = NodesLen(ptLst)]_vars

\* Node.text = "a" was set on one of two connected nodes; the other still
\* holds its two runs.
C19_Witness ==
    /\ last.i # 0
    /\ last.v = "a"
    /\ NodesLen(ptLst) = 2
    /\ Len(cxnLst) = 1
    /\ NodeText(ptLst, last.i) = "a"
    /\ \E j \in 1..2 :
          /\ j # last.i
          /\ ptLst[NodesIter(ptLst)[j]].runs = <<"x", "y">>

\* C20: Node.text set is idempotent, synchronization included: the same set
\* made a second time leaves the point list and every relationship target
\* exactly as the first left them.
C20_SetIsIdempotent ==
    [][(last'.i # 0 /\ last' = last) =>
          /\ ptLst' = ptLst
          /\ cxnLst' = cxnLst
          /\ rels' = rels]_vars

\* Node.text = "a" was set on the first node of an attached collection and
\* propagated into a drawing part that held other cells.
C20_Witness ==
    /\ last.i = 1
    /\ last.v = "a"
    /\ Attached
    /\ NodesLen(ptLst) = 2
    /\ NodeText(ptLst, 1) = "a"
    /\ \E r \in 1..Len(rels) :
          /\ IsCacheTarget(rels[r])
          /\ Len(rels[r].cells) >= 1
          /\ rels[r].cells[1] = "a"

====
